---- MODULE Spec2Model ----
(***************************************************************************)
(* Model of the bulk e-mail send worker (src/core/email_sender.py).        *)
(*                                                                         *)
(* One EmailSenderWorker is constructed from a campaign configuration and  *)
(* run on its own thread; the owner of the worker may call request_stop()  *)
(* at any moment.  Strings are tuples of one-character strings, times are  *)
(* in milliseconds.                                                        *)
(***************************************************************************)
EXTENDS Integers, Sequences, FiniteSets

VARIABLES
    api_key,         \* self.api_key        (stripped at construction)
    from_email,      \* self.from_email     (stripped at construction)
    subject,         \* self.subject        (stripped at construction)
    html_body,       \* self.html_body      (kept verbatim)
    recipients,      \* self.recipients     (kept verbatim)
    delay_seconds,   \* self.delay_seconds  (floored at construction), in ms
    stop_requested,  \* self._stop_requested
    pc,              \* position of the worker thread inside run()
    idx,             \* loop cursor of `for idx, recipient in enumerate(...)`
    total,           \* local `total`
    success_count,   \* local `success_count`
    fail_count,      \* local `fail_count`
    sleep_time,      \* local `sleep_time`, in ms
    slept,           \* local `slept`, in ms
    step,            \* local `step`, in ms
    events,          \* every signal emitted by the worker, in emission order
    calls,           \* every resend.Emails.send call dispatched, in order
    slicesSinceStop, \* slices of the current wait that ended with the flag set
    stopAt,          \* where the worker was when request_stop was first called
    send_btn,        \* MainWindow.send_btn is enabled
    stop_btn,        \* MainWindow.stop_btn is enabled
    handled,         \* the window has handled the worker's last signal
    runs,            \* workers started by the window so far
    stoppedEarlier,  \* request_stop was called on a worker before this one
    arg,             \* argument of the pure function under study
    ret              \* its result, once computed

vars == << api_key, from_email, subject, html_body, recipients, delay_seconds,
           stop_requested, pc, idx, total, success_count, fail_count,
           sleep_time, slept, step, events, calls, slicesSinceStop, stopAt,
           send_btn, stop_btn, handled, runs, stoppedEarlier, arg, ret >>

config == << api_key, from_email, subject, html_body, recipients, delay_seconds >>

\* What only the owner's thread writes.
owner == << stop_requested, stopAt >>

\* The state of the main window.
window == << send_btn, stop_btn, handled, runs, stoppedEarlier >>

\* The pure functions are studied apart from the worker.
pure == << arg, ret >>

----------------------------------------------------------------------------
(* Bounds of the model and constants of the program.                       *)

MaxRecipients == 3

MinDelay == 1000

MinSleep == 1000

SliceMs == 250

JitterBound == 500

\* Values passed to the constructor for api_key, from_email and subject.
FieldPool == { <<>>, <<" ">>, <<" ", "k", " ">> }

\* Values passed to the constructor for html_body.
HtmlPool == { <<>>, <<" ">>, <<"<", "p", ">", "h">> }

\* Entries of the recipient list: empty, blank, well-formed (surrounded by
\* blanks that strip() removes) and malformed.
RecipientPool ==
    { <<>>,
      <<" ">>,
      <<" ", "a", "@", "b", ".", "c", "o", " ">>,
      <<"a", "@", "b">> }

\* Values passed to the constructor for delay_seconds, in ms.
DelayPool == { 500, 1600 }

\* Values drawn by random.uniform(-0.5, 0.5), in ms.
JitterPool == { -JitterBound, 100, JitterBound }

----------------------------------------------------------------------------
(* Pure helpers.                                                           *)

Whitespace == { " ", "\t", "\n" }

Max(a, b) == IF a >= b THEN a ELSE b

Min(a, b) == IF a <= b THEN a ELSE b

\* Index of the first character of s that is not whitespace, Len(s) + 1
\* when there is none.
FirstKept(s) ==
    CHOOSE i \in 1..(Len(s) + 1) :
        /\ i = Len(s) + 1 \/ s[i] \notin Whitespace
        /\ \A j \in 1..(i - 1) : s[j] \in Whitespace

\* Index of the last character of s that is not whitespace, 0 when there
\* is none.
LastKept(s) ==
    CHOOSE i \in 0..Len(s) :
        /\ i = 0 \/ s[i] \notin Whitespace
        /\ \A j \in (i + 1)..Len(s) : s[j] \in Whitespace

\* str.strip(): drop leading and trailing whitespace.
Strip(s) == SubSeq(s, FirstKept(s), LastKept(s))

Letters == { "a", "b", "c", "k", "o", "h", "p" }

Digits == { "0", "1" }

LocalChars == Letters \cup Digits \cup { ".", "_", "%", "+", "-" }

DomainChars == Letters \cup Digits \cup { ".", "-" }

\* _EMAIL_RE.match: ^[local]+@[domain]+\.[letters]{2,}$
EmailReMatch(s) ==
    \E at \in 1..Len(s) : \E dot \in 1..Len(s) :
        /\ s[at] = "@"
        /\ s[dot] = "."
        /\ at >= 2
        /\ dot >= at + 2
        /\ Len(s) >= dot + 2
        /\ \A i \in 1..(at - 1) : s[i] \in LocalChars
        /\ \A i \in (at + 1)..(dot - 1) : s[i] \in DomainChars
        /\ \A i \in (dot + 1)..Len(s) : s[i] \in Letters

\* is_valid_email without the strip() of line 33.
is_valid_email_Untrimmed(email) == EmailReMatch(email)

is_valid_email(email) == \E stripped \in { Strip(email) } : EmailReMatch(stripped)

\* Lists of at most n entries drawn from S.
SeqsUpTo(S, n) == UNION { [1..k -> S] : k \in 0..n }

NoString == <<>>

\* Positions of the events of one kind.
EventsOf(kind) == { p \in 1..Len(events) : events[p].kind = kind }

\* stopAt before request_stop was ever called.
NotStopped == [pc |-> "none", idx |-> -1, calls |-> -1, outcomes |-> -1]

\* One emitted signal.  kind is the signal, the other fields carry its
\* arguments (unused ones are -1, FALSE, "" or the empty string).
Ev(kind, i, ok, text, rcpt, x, y) ==
    [kind |-> kind, idx |-> i, ok |-> ok, text |-> text, rcpt |-> rcpt,
     x |-> x, y |-> y]

LogEv(text, i) == Ev("log", i, FALSE, text, NoString, -1, -1)

FatalEv(text) == Ev("fatalError", -1, FALSE, text, NoString, -1, -1)

OutcomeEv(i, rcpt, ok, text) == Ev("outcome", i, ok, text, rcpt, -1, -1)

ProgressEv(cur, tot) == Ev("progress", cur - 1, FALSE, "", NoString, cur, tot)

CompletedEv(s, f) == Ev("completed", -1, FALSE, "", NoString, s, f)

\* The recipient the loop is at, trimmed (recipients is 0-indexed in the code).
Current == Strip(recipients[idx + 1])

\* The window right after it started its first worker (lines 588-606).
StartedOnce ==
    /\ send_btn = FALSE
    /\ stop_btn = TRUE
    /\ handled = FALSE
    /\ runs = 1
    /\ stoppedEarlier = FALSE

\* No pure function is under study.
NoCall == arg = <<>> /\ ret = <<>>

----------------------------------------------------------------------------
(* State after __init__.                                                   *)

Init ==
    /\ \E k \in FieldPool : api_key = Strip(k)
    /\ \E e \in FieldPool : from_email = Strip(e)
    /\ \E s \in FieldPool : subject = Strip(s)
    /\ html_body \in HtmlPool
    /\ recipients \in SeqsUpTo(RecipientPool, MaxRecipients)
    /\ \E d \in DelayPool : delay_seconds = Max(d, MinDelay)
    /\ stop_requested = FALSE
    /\ pc = "start"
    /\ idx = 0
    /\ total = 0
    /\ success_count = 0
    /\ fail_count = 0
    /\ sleep_time = 0
    /\ slept = 0
    /\ step = 0
    /\ events = <<>>
    /\ calls = <<>>
    /\ slicesSinceStop = 0
    /\ stopAt = NotStopped
    /\ StartedOnce
    /\ NoCall

----------------------------------------------------------------------------
(* request_stop(), called from the owner's thread at any moment.           *)

\* request_stop, had it toggled the flag.
request_stop_Toggles ==
    /\ stop_requested' = ~stop_requested
    /\ stopAt' = IF stop_requested THEN stopAt
                 ELSE [pc |-> pc, idx |-> idx, calls |-> Len(calls),
                       outcomes |-> Cardinality(EventsOf("outcome"))]
    /\ UNCHANGED << window, pure, config, pc, idx, total, success_count, fail_count,
                    sleep_time, slept, step, events, calls,
                    slicesSinceStop >>

request_stop ==
    /\ stop_requested' = TRUE
    /\ stopAt' = IF stop_requested THEN stopAt
                 ELSE [pc |-> pc, idx |-> idx, calls |-> Len(calls),
                       outcomes |-> Cardinality(EventsOf("outcome"))]
    /\ UNCHANGED << window, pure, config, pc, idx, total, success_count, fail_count,
                    sleep_time, slept, step, events, calls,
                    slicesSinceStop >>

----------------------------------------------------------------------------
(* run(), one action per stretch of code between two points at which the   *)
(* worker reads the stop flag, waits for the provider or sleeps.           *)

\* ValidationError, had the subject been tested before the sender.
ValidationError_SubjectFirst ==
    IF api_key = <<>> THEN "API key is empty."
    ELSE IF subject = <<>> THEN "Subject line is empty."
    ELSE IF from_email = <<>> THEN "Sender email is empty."
    ELSE IF Strip(html_body) = <<>> THEN "Email body (HTML) is empty."
    ELSE IF recipients = <<>> THEN "Recipient list is empty."
    ELSE ""

\* ValidationError, had line 118 counted the non-blank entries only.
ValidationError_BlankListEmpty ==
    IF api_key = <<>> THEN "API key is empty."
    ELSE IF from_email = <<>> THEN "Sender email is empty."
    ELSE IF subject = <<>> THEN "Subject line is empty."
    ELSE IF Strip(html_body) = <<>> THEN "Email body (HTML) is empty."
    ELSE IF \A i \in 1..Len(recipients) : Strip(recipients[i]) = <<>>
    THEN "Recipient list is empty."
    ELSE ""

\* ValidationError, had line 115 tested html_body without strip().
ValidationError_BodyUntrimmed ==
    IF api_key = <<>> THEN "API key is empty."
    ELSE IF from_email = <<>> THEN "Sender email is empty."
    ELSE IF subject = <<>> THEN "Subject line is empty."
    ELSE IF html_body = <<>> THEN "Email body (HTML) is empty."
    ELSE IF recipients = <<>> THEN "Recipient list is empty."
    ELSE ""

\* The message of the first failing check of lines 106-120, "" when all pass.
ValidationError ==
    IF api_key = <<>> THEN "API key is empty."
    ELSE IF from_email = <<>> THEN "Sender email is empty."
    ELSE IF subject = <<>> THEN "Subject line is empty."
    ELSE IF Strip(html_body) = <<>> THEN "Email body (HTML) is empty."
    ELSE IF recipients = <<>> THEN "Recipient list is empty."
    ELSE ""

\* ValidateFail, had the `return` after error_occurred.emit been left out.
ValidateFail_GoesOn ==
    /\ pc = "start"
    /\ ValidationError # ""
    /\ events' = Append(events, FatalEv(ValidationError))
    /\ pc' = "loop"
    /\ UNCHANGED << window, pure, config, owner, idx, total, success_count, fail_count,
                    sleep_time, slept, step, calls, slicesSinceStop >>

\* Lines 106-120: a failing check emits error_occurred and returns.
ValidateFail ==
    /\ pc = "start"
    /\ ValidationError # ""
    /\ events' = Append(events, FatalEv(ValidationError))
    /\ pc' = "FatalError"
    /\ UNCHANGED << window, pure, config, owner, idx, total, success_count, fail_count,
                    sleep_time, slept, step, calls, slicesSinceStop >>

\* ValidateOk, had line 134 counted the non-blank entries only.
ValidateOk_TotalNonBlank ==
    /\ pc = "start"
    /\ ValidationError = ""
    /\ total' = Cardinality({ i \in 1..Len(recipients) :
                                Strip(recipients[i]) # <<>> })
    /\ success_count' = 0
    /\ fail_count' = 0
    /\ idx' = 0
    /\ events' = Append(events, LogEv("Starting to send", -1))
    /\ pc' = "loop"
    /\ UNCHANGED << window, pure, config, owner, sleep_time, slept, step, calls,
                    slicesSinceStop >>

\* Lines 122-140: all checks pass; locals are initialised, the banner logged.
ValidateOk ==
    /\ pc = "start"
    /\ ValidationError = ""
    /\ total' = Len(recipients)
    /\ success_count' = 0
    /\ fail_count' = 0
    /\ idx' = 0
    /\ events' = Append(events, LogEv("Starting to send", -1))
    /\ pc' = "loop"
    /\ UNCHANGED << window, pure, config, owner, sleep_time, slept, step, calls,
                    slicesSinceStop >>

\* StopBreak, had line 145 been `return` instead of `break`.
StopBreak_Returns ==
    /\ pc = "loop"
    /\ idx < Len(recipients)
    /\ stop_requested
    /\ events' = Append(events, LogEv("Sending stopped by user.", idx))
    /\ pc' = "Cancelled"
    /\ UNCHANGED << window, pure, config, owner, idx, total, success_count, fail_count,
                    sleep_time, slept, step, calls, slicesSinceStop >>

\* Lines 142-145: the flag is set at the top of an iteration: log and break.
StopBreak ==
    /\ pc = "loop"
    /\ idx < Len(recipients)
    /\ stop_requested
    /\ events' = Append(events, LogEv("Sending stopped by user.", idx))
    /\ pc' = "break"
    /\ UNCHANGED << window, pure, config, owner, idx, total, success_count, fail_count,
                    sleep_time, slept, step, calls, slicesSinceStop >>

\* EnterBody, had line 143 not tested the flag.
EnterBody_IgnoringStop ==
    /\ pc = "loop"
    /\ idx < Len(recipients)
    /\ pc' = "body"
    /\ UNCHANGED << window, pure, config, owner, idx, total, success_count, fail_count,
                    sleep_time, slept, step, events, calls,
                    slicesSinceStop >>

\* Lines 142-143: the flag is clear at the top of an iteration: enter the body.
EnterBody ==
    /\ pc = "loop"
    /\ idx < Len(recipients)
    /\ ~stop_requested
    /\ pc' = "body"
    /\ UNCHANGED << window, pure, config, owner, idx, total, success_count, fail_count,
                    sleep_time, slept, step, events, calls,
                    slicesSinceStop >>

\* SkipBlank, had a blank entry been reported like a malformed one.
SkipBlank_Reported ==
    /\ pc = "body"
    /\ Current = <<>>
    /\ events' = events \o << OutcomeEv(idx, Current, FALSE, "Invalid email format"),
                              ProgressEv(idx + 1, total) >>
    /\ fail_count' = fail_count + 1
    /\ idx' = idx + 1
    /\ pc' = "loop"
    /\ UNCHANGED << window, pure, config, owner, total, success_count, sleep_time,
                    slept, step, calls, slicesSinceStop >>

\* Lines 147-149: a recipient that is empty after strip() is skipped.
SkipBlank ==
    /\ pc = "body"
    /\ Current = <<>>
    /\ idx' = idx + 1
    /\ pc' = "loop"
    /\ UNCHANGED << window, pure, config, owner, total, success_count, fail_count,
                    sleep_time, slept, step, events, calls,
                    slicesSinceStop >>

\* RejectInvalid, had line 155 been left out.
RejectInvalid_NoProgress ==
    /\ pc = "body"
    /\ Current # <<>>
    /\ ~is_valid_email(Current)
    /\ events' = Append(events, OutcomeEv(idx, Current, FALSE, "Invalid email format"))
    /\ fail_count' = fail_count + 1
    /\ idx' = idx + 1
    /\ pc' = "loop"
    /\ UNCHANGED << window, pure, config, owner, total, success_count, sleep_time,
                    slept, step, calls, slicesSinceStop >>

\* RejectInvalid, had line 154 been left out.
RejectInvalid_Uncounted ==
    /\ pc = "body"
    /\ Current # <<>>
    /\ ~is_valid_email(Current)
    /\ events' = events \o << OutcomeEv(idx, Current, FALSE, "Invalid email format"),
                              ProgressEv(idx + 1, total) >>
    /\ idx' = idx + 1
    /\ pc' = "loop"
    /\ UNCHANGED << window, pure, config, owner, total, success_count, fail_count,
                    sleep_time, slept, step, calls, slicesSinceStop >>

\* Lines 151-156: a malformed recipient is reported as failed, no call made.
RejectInvalid ==
    /\ pc = "body"
    /\ Current # <<>>
    /\ ~is_valid_email(Current)
    /\ events' = events \o << OutcomeEv(idx, Current, FALSE, "Invalid email format"),
                              ProgressEv(idx + 1, total) >>
    /\ fail_count' = fail_count + 1
    /\ idx' = idx + 1
    /\ pc' = "loop"
    /\ UNCHANGED << window, pure, config, owner, total, success_count, sleep_time,
                    slept, step, calls, slicesSinceStop >>

\* Dispatch, had line 147 been left out and the raw entry been sent.
Dispatch_Untrimmed ==
    /\ pc = "body"
    /\ Current # <<>>
    /\ is_valid_email(Current)
    /\ calls' = Append(calls, [idx |-> idx, to |-> << recipients[idx + 1] >>,
                                result |-> "pending"])
    /\ pc' = "sending"
    /\ UNCHANGED << window, pure, config, owner, idx, total, success_count, fail_count,
                    sleep_time, slept, step, events, slicesSinceStop >>

\* Dispatch, had the send been handed to another thread and not awaited.
Dispatch_Async ==
    /\ pc = "body"
    /\ Current # <<>>
    /\ is_valid_email(Current)
    /\ calls' = Append(calls, [idx |-> idx, to |-> << Current >>,
                                result |-> "pending"])
    /\ idx' = idx + 1
    /\ pc' = "loop"
    /\ UNCHANGED << window, pure, config, owner, total, success_count, fail_count,
                    sleep_time, slept, step, events, slicesSinceStop >>

\* Lines 158-180: the message is built and resend.Emails.send is entered.
Dispatch ==
    /\ pc = "body"
    /\ Current # <<>>
    /\ is_valid_email(Current)
    /\ calls' = Append(calls, [idx |-> idx, to |-> << Current >>,
                                result |-> "pending"])
    /\ pc' = "sending"
    /\ UNCHANGED << window, pure, config, owner, idx, total, success_count, fail_count,
                    sleep_time, slept, step, events, slicesSinceStop >>

\* SendSucceeded, had the failure counter been raised as well.
SendSucceeded_CountsBoth ==
    /\ pc = "sending"
    /\ calls' = [calls EXCEPT ![Len(calls)].result = "id"]
    /\ success_count' = success_count + 1
    /\ fail_count' = fail_count + 1
    /\ events' = events \o << LogEv("sent", idx),
                              OutcomeEv(idx, Current, TRUE, "id"),
                              ProgressEv(idx + 1, total) >>
    /\ pc' = "pace"
    /\ UNCHANGED << window, pure, config, owner, idx, total, sleep_time,
                    slept, step, slicesSinceStop >>

\* SendSucceeded, had the result been dropped once a stop was requested.
SendSucceeded_DroppedOnStop ==
    /\ pc = "sending"
    /\ calls' = [calls EXCEPT ![Len(calls)].result = "id"]
    /\ success_count' = IF stop_requested THEN success_count
                        ELSE success_count + 1
    /\ events' = IF stop_requested THEN events
                 ELSE events \o << LogEv("sent", idx),
                                   OutcomeEv(idx, Current, TRUE, "id"),
                                   ProgressEv(idx + 1, total) >>
    /\ pc' = "pace"
    /\ UNCHANGED << window, pure, config, owner, idx, total, fail_count, sleep_time,
                    slept, step, slicesSinceStop >>

\* Lines 180-186, 194-195: the call returned a response.  The detail "id"
\* stands for the string line 181 extracts from it.
SendSucceeded ==
    /\ pc = "sending"
    /\ calls' = [calls EXCEPT ![Len(calls)].result = "id"]
    /\ success_count' = success_count + 1
    /\ events' = events \o << LogEv("sent", idx),
                              OutcomeEv(idx, Current, TRUE, "id"),
                              ProgressEv(idx + 1, total) >>
    /\ pc' = "pace"
    /\ UNCHANGED << window, pure, config, owner, idx, total, fail_count, sleep_time,
                    slept, step, slicesSinceStop >>

\* SendFailed, had the exception not been caught: the thread dies.
SendFailed_Uncaught ==
    /\ pc = "sending"
    /\ calls' = [calls EXCEPT ![Len(calls)].result = "raise"]
    /\ pc' = "crashed"
    /\ UNCHANGED << window, pure, config, owner, idx, total, success_count, fail_count,
                    sleep_time, slept, step, events, slicesSinceStop >>

\* SendFailed, had line 195 been reached on the success path only.
SendFailed_NoProgress ==
    /\ pc = "sending"
    /\ calls' = [calls EXCEPT ![Len(calls)].result = "raise"]
    /\ fail_count' = fail_count + 1
    /\ events' = events \o << LogEv("failed", idx),
                              OutcomeEv(idx, Current, FALSE, "error") >>
    /\ pc' = "pace"
    /\ UNCHANGED << window, pure, config, owner, idx, total, success_count, sleep_time,
                    slept, step, slicesSinceStop >>

\* Lines 187-195: the call raised; the exception is caught.  The detail
\* "error" stands for str(exc).
SendFailed ==
    /\ pc = "sending"
    /\ calls' = [calls EXCEPT ![Len(calls)].result = "raise"]
    /\ fail_count' = fail_count + 1
    /\ events' = events \o << LogEv("failed", idx),
                              OutcomeEv(idx, Current, FALSE, "error"),
                              ProgressEv(idx + 1, total) >>
    /\ pc' = "pace"
    /\ UNCHANGED << window, pure, config, owner, idx, total, success_count, sleep_time,
                    slept, step, slicesSinceStop >>

\* StartWait, had line 198 not tested for the last index.
StartWait_AtLastIndex ==
    /\ pc = "pace"
    /\ ~stop_requested
    /\ \E jitter \in JitterPool :
          sleep_time' = Max(MinSleep, delay_seconds + jitter)
    /\ events' = Append(events, LogEv("waiting", idx))
    /\ slept' = 0
    /\ slicesSinceStop' = 0
    /\ pc' = "sleepLoop"
    /\ UNCHANGED << window, pure, config, owner, idx, total, success_count, fail_count,
                    step, calls >>

\* StartWait, had line 200 not floored the wait.
StartWait_NoFloor ==
    /\ pc = "pace"
    /\ idx < total - 1 /\ ~stop_requested
    /\ \E jitter \in JitterPool : sleep_time' = delay_seconds + jitter
    /\ events' = Append(events, LogEv("waiting", idx))
    /\ slept' = 0
    /\ slicesSinceStop' = 0
    /\ pc' = "sleepLoop"
    /\ UNCHANGED << window, pure, config, owner, idx, total, success_count, fail_count,
                    step, calls >>

\* Lines 198-203: not the last index and the flag clear: start a pacing wait.
StartWait ==
    /\ pc = "pace"
    /\ idx < total - 1 /\ ~stop_requested
    /\ \E jitter \in JitterPool :
          sleep_time' = Max(MinSleep, delay_seconds + jitter)
    /\ events' = Append(events, LogEv("waiting", idx))
    /\ slept' = 0
    /\ slicesSinceStop' = 0
    /\ pc' = "sleepLoop"
    /\ UNCHANGED << window, pure, config, owner, idx, total, success_count, fail_count,
                    step, calls >>

\* NoWait, had the cursor not moved on.
NoWait_SameIndex ==
    /\ pc = "pace"
    /\ ~(idx < total - 1 /\ ~stop_requested)
    /\ pc' = "loop"
    /\ UNCHANGED << window, pure, config, owner, idx, total, success_count, fail_count,
                    sleep_time, slept, step, events, calls,
                    slicesSinceStop >>

\* Line 198 false: no wait, on to the next iteration.
NoWait ==
    /\ pc = "pace"
    /\ ~(idx < total - 1 /\ ~stop_requested)
    /\ idx' = idx + 1
    /\ pc' = "loop"
    /\ UNCHANGED << window, pure, config, owner, total, success_count, fail_count,
                    sleep_time, slept, step, events, calls,
                    slicesSinceStop >>

\* BeginSlice, had line 204 not tested the flag.
BeginSlice_IgnoringStop ==
    /\ pc = "sleepLoop"
    /\ slept < sleep_time
    /\ step' = Min(SliceMs, sleep_time - slept)
    /\ pc' = "slice"
    /\ UNCHANGED << window, pure, config, owner, idx, total, success_count, fail_count,
                    sleep_time, slept, events, calls, slicesSinceStop >>

\* Lines 204-206: the wait goes on: compute the slice and enter time.sleep.
BeginSlice ==
    /\ pc = "sleepLoop"
    /\ slept < sleep_time /\ ~stop_requested
    /\ step' = Min(SliceMs, sleep_time - slept)
    /\ pc' = "slice"
    /\ UNCHANGED << window, pure, config, owner, idx, total, success_count, fail_count,
                    sleep_time, slept, events, calls, slicesSinceStop >>

\* EndSlice, had line 207 been left out.
EndSlice_NoAdvance ==
    /\ pc = "slice"
    /\ slicesSinceStop' = IF stop_requested THEN slicesSinceStop + 1
                          ELSE slicesSinceStop
    /\ pc' = "sleepLoop"
    /\ UNCHANGED << window, pure, config, owner, idx, total, success_count, fail_count,
                    sleep_time, slept, step, events, calls >>

\* Lines 206-207: time.sleep(step) returned.
EndSlice ==
    /\ pc = "slice"
    /\ slept' = slept + step
    /\ slicesSinceStop' = IF stop_requested THEN slicesSinceStop + 1
                          ELSE slicesSinceStop
    /\ pc' = "sleepLoop"
    /\ UNCHANGED << window, pure, config, owner, idx, total, success_count, fail_count,
                    sleep_time, step, events, calls >>

\* EndWait, had the loop of line 204 been left before the time was up.
EndWait_Early ==
    /\ pc = "sleepLoop"
    /\ idx' = idx + 1
    /\ pc' = "loop"
    /\ UNCHANGED << window, pure, config, owner, total, success_count, fail_count,
                    sleep_time, slept, step, events, calls,
                    slicesSinceStop >>

\* Line 204 false: the wait is over (slept enough, or the flag is set).
EndWait ==
    /\ pc = "sleepLoop"
    /\ ~(slept < sleep_time /\ ~stop_requested)
    /\ idx' = idx + 1
    /\ pc' = "loop"
    /\ UNCHANGED << window, pure, config, owner, total, success_count, fail_count,
                    sleep_time, slept, step, events, calls,
                    slicesSinceStop >>

\* Line 209: the loop was left (list exhausted or break): emit finished_all.
Finish ==
    /\ \/ pc = "break"
       \/ pc = "loop" /\ idx >= Len(recipients)
    /\ events' = Append(events, CompletedEv(success_count, fail_count))
    /\ pc' = IF pc = "break" THEN "Cancelled" ELSE "Completed"
    /\ UNCHANGED << window, pure, config, owner, idx, total, success_count, fail_count,
                    sleep_time, slept, step, calls, slicesSinceStop >>

\* Every step of the worker thread.
run ==
    \/ ValidateFail
    \/ ValidateOk
    \/ StopBreak
    \/ EnterBody
    \/ SkipBlank
    \/ RejectInvalid
    \/ Dispatch
    \/ SendSucceeded
    \/ SendFailed
    \/ StartWait
    \/ NoWait
    \/ BeginSlice
    \/ EndSlice
    \/ EndWait
    \/ Finish

Next == run \/ request_stop

Spec == Init /\ [][Next]_vars

\* The worker thread is scheduled, time.sleep returns and, as the provider
\* contract states, every send call returns or raises.
FairSpec == Spec /\ WF_vars(run)

Terminal == { "Completed", "Cancelled", "FatalError" }

----------------------------------------------------------------------------
(* Reading the history.                                                    *)

\* Positions of the outcome events with the given success flag.
OutcomesWith(ok) == { p \in EventsOf("outcome") : events[p].ok = ok }

\* Positions in calls of the provider calls that have not returned.
InFlight == { k \in 1..Len(calls) : calls[k].result = "pending" }

\* Some required field is empty when run() starts.
AnyFieldEmpty ==
    \/ Len(api_key) = 0
    \/ Len(from_email) = 0
    \/ Len(subject) = 0
    \/ Len(Strip(html_body)) = 0
    \/ Len(recipients) = 0

\* 0-based indices of the recipients that are not blank.
NonBlank == { i \in 0..(Len(recipients) - 1) : Strip(recipients[i + 1]) # <<>> }

StoppedLog == { p \in EventsOf("log") : events[p].text = "Sending stopped by user." }

----------------------------------------------------------------------------
(* Claims.                                                                 *)

\* C1: when a required field (apiKey, fromEmail, subject, trimmed htmlBody,
\* recipient list) is empty at the start of run(), the run emits exactly
\* one fatalError event and nothing else, makes no provider call and emits
\* no outcome event.
C1_FatalOnEmptyField ==
    AnyFieldEmpty =>
        /\ calls = <<>>
        /\ EventsOf("outcome") = {}
        /\ pc \in { "start", "FatalError" }
        /\ pc = "start" => events = <<>>
        /\ pc = "FatalError" =>
              /\ Len(events) = 1
              /\ events[1].kind = "fatalError"

C1_Witness ==
    /\ pc = "FatalError"
    /\ Strip(html_body) = <<>>
    /\ html_body # <<>>
    /\ recipients # <<>>

\* C2: completed is emitted at most once, nothing is emitted after it, and
\* a run that passed validation and ended (list exhausted or loop left by
\* cancellation) has emitted it exactly once, as its last event.
C2_CompletedOnceAndLast ==
    /\ Cardinality(EventsOf("completed")) <= 1
    /\ EventsOf("completed") \subseteq { Len(events) }
    /\ EventsOf("completed") # {} => pc \in { "Completed", "Cancelled" }
    /\ (pc \in Terminal /\ ~AnyFieldEmpty) => EventsOf("completed") = { Len(events) }

C2_Witness ==
    /\ pc = "Cancelled"
    /\ EventsOf("outcome") # {}
    /\ events[Len(events)].kind = "completed"

\* C3: a provider call that raised is recorded as exactly one failed outcome
\* for its recipient, the step that handles it raises failCount by one and
\* does not end the run, and a run that ran through the list has emitted
\* exactly one outcome for every non-blank recipient.
C3_RaiseRecorded ==
    /\ \A k \in 1..Len(calls) :
          calls[k].result = "raise" =>
              /\ Cardinality({ p \in EventsOf("outcome") :
                                 events[p].idx = calls[k].idx }) = 1
              /\ \E p \in OutcomesWith(FALSE) : events[p].idx = calls[k].idx
    /\ pc = "Completed" =>
          \A i \in NonBlank :
              Cardinality({ p \in EventsOf("outcome") : events[p].idx = i }) = 1

C3_RaiseCounted ==
    (/\ pc = "sending"
     /\ calls' # calls
     /\ calls'[Len(calls)].result = "raise")
        => /\ fail_count' = fail_count + 1
           /\ success_count' = success_count
           /\ pc' = "pace"

C3_FailureNeverEndsRun == [](C3_RaiseRecorded) /\ [][C3_RaiseCounted]_vars

C3_Witness ==
    /\ pc = "Completed"
    /\ ~stop_requested
    /\ Len(calls) >= 2
    /\ calls[1].result = "raise"
    /\ calls[2].result = "id"

\* C4: when the stop flag is set as the loop is about to start a recipient,
\* the worker logs "Sending stopped by user." and leaves the loop; it makes
\* no provider call and emits no outcome or progress event for that
\* recipient or a later one, and completed carries exactly the counts of
\* the outcomes emitted before the stop.
C4_BreakAtLoopTop ==
    (pc = "loop" /\ idx < Len(recipients) /\ stop_requested)
        => /\ events' = Append(events, LogEv("Sending stopped by user.", idx))
           /\ calls' = calls
           /\ success_count' = success_count
           /\ fail_count' = fail_count
           /\ pc' = "break"

C4_NothingAfterBreak ==
    pc \in { "break", "Cancelled" } =>
        \E p \in StoppedLog :
            /\ StoppedLog = { p }
            /\ events[p].idx = idx
            /\ \A q \in EventsOf("outcome") \cup EventsOf("progress") :
                  q < p /\ events[q].idx < idx
            /\ \A k \in 1..Len(calls) : calls[k].idx < idx
            /\ pc = "break" => p = Len(events)
            /\ pc = "Cancelled" =>
                  /\ p = Len(events) - 1
                  /\ events[Len(events)] =
                        CompletedEv(Cardinality({ q \in OutcomesWith(TRUE) : q < p }),
                                    Cardinality({ q \in OutcomesWith(FALSE) : q < p }))

C4_StopBeforeRecipient == [](C4_NothingAfterBreak) /\ [][C4_BreakAtLoopTop]_vars

C4_Witness ==
    /\ pc = "Cancelled"
    /\ idx = 1
    /\ Len(recipients) >= 2
    /\ NonBlank = 0..(Len(recipients) - 1)
    /\ events[Len(events)].x + events[Len(events)].y = 1

\* C5: a stop requested while a provider call is in flight does not
\* suppress the call's result: the step that ends the call still emits the
\* outcome and the progress event of that recipient and raises the matching
\* counter by one, and a run that ended has reported that recipient.
C5_ResultHandled ==
    (pc = "sending" /\ stop_requested /\ pc' # "sending")
        => /\ Len(events') = Len(events) + 3
           /\ SubSeq(events', 1, Len(events)) = events
           /\ events'[Len(events) + 2].kind = "outcome"
           /\ events'[Len(events) + 2].idx = idx
           /\ events'[Len(events) + 3] = ProgressEv(idx + 1, total)
           /\ IF events'[Len(events) + 2].ok
              THEN success_count' = success_count + 1 /\ fail_count' = fail_count
              ELSE fail_count' = fail_count + 1 /\ success_count' = success_count

C5_ReportedAtEnd ==
    (stopAt.pc = "sending" /\ pc \in Terminal) =>
        /\ \E p \in EventsOf("outcome") : events[p].idx = stopAt.idx
        /\ \E p \in EventsOf("progress") : events[p].idx = stopAt.idx
        /\ calls[stopAt.calls].result # "pending"

C5_StopInFlightKeepsResult == [](C5_ReportedAtEnd) /\ [][C5_ResultHandled]_vars

C5_Witness ==
    /\ pc = "Cancelled"
    /\ stopAt.pc = "sending"
    /\ stopAt.idx = 0
    /\ success_count = 1

\* C6: a stop requested during a pacing wait takes effect within one sleep
\* slice: no slice is longer than 0.25 s, at most one slice ends after the
\* flag was set, and after a stop requested during the wait the worker only
\* leaves the wait and ends the run as cancelled, dispatching no further
\* provider call.
C6_StopDuringWait ==
    /\ step <= SliceMs
    /\ slicesSinceStop <= 1
    /\ stopAt.pc \in { "sleepLoop", "slice" } =>
          /\ Len(calls) = stopAt.calls
          /\ pc \in { "sleepLoop", "slice", "loop", "break", "Cancelled" }
          /\ pc \in { "sleepLoop", "slice" } => idx = stopAt.idx
          /\ pc \in { "loop", "break", "Cancelled" } => idx = stopAt.idx + 1
          /\ pc = "sleepLoop" => slicesSinceStop = (IF stopAt.pc = "slice" THEN 1 ELSE 0)

C6_Witness ==
    /\ pc = "Cancelled"
    /\ stopAt.pc = "slice"
    /\ slicesSinceStop = 1
    /\ slept < sleep_time

\* C7: recipients are processed in list order: the indices of the provider
\* calls, and the indices of the outcome events, are strictly increasing
\* in the order the calls were made and the events emitted.
C7_ListOrder ==
    /\ \A j \in 1..Len(calls) : \A k \in 1..Len(calls) :
          j < k => calls[j].idx < calls[k].idx
    /\ \A p \in EventsOf("outcome") : \A q \in EventsOf("outcome") :
          p < q => events[p].idx < events[q].idx

C7_Witness ==
    /\ pc = "Completed"
    /\ Len(calls) = 2
    /\ Cardinality(EventsOf("outcome")) = 3

\* C8: at most one provider call is in flight at any time, and when a call
\* has been dispatched every earlier call has returned and the outcome of
\* its recipient has been emitted.
C8_OneInFlight ==
    /\ Cardinality(InFlight) <= 1
    /\ \A k \in 1..Len(calls) : \A j \in 1..(k - 1) :
          /\ calls[j].result # "pending"
          /\ \E p \in EventsOf("outcome") : events[p].idx = calls[j].idx

C8_Witness ==
    /\ pc = "sending"
    /\ Len(calls) = 2
    /\ InFlight = { 2 }

\* C9: every run ends in one of the states Completed, Cancelled or
\* FatalError and stays there, whatever the recipient list and whenever the
\* stop is requested, given that every provider call returns or raises.
C9_TerminalIsFinal == (pc \in Terminal) => (pc' = pc /\ events' = events)

C9_Terminates == <>(pc \in Terminal) /\ [][C9_TerminalIsFinal]_vars

C9_Witness ==
    /\ pc \in Terminal
    /\ Len(calls) >= 2
    /\ stop_requested
    /\ stopAt.pc = "pace"

\* C10: the counts carried by completed are the numbers of outcome events
\* of the run with succeeded = true and with succeeded = false.
C10_CountsMatchOutcomes ==
    pc \in { "Completed", "Cancelled" } =>
        events[Len(events)] = CompletedEv(Cardinality(OutcomesWith(TRUE)),
                                          Cardinality(OutcomesWith(FALSE)))

C10_Witness ==
    /\ pc = "Completed"
    /\ Cardinality(OutcomesWith(TRUE)) = 1
    /\ Cardinality(OutcomesWith(FALSE)) = 2
    /\ \E p \in OutcomesWith(FALSE) : events[p].text = "Invalid email format"

\* The required fields in the order of the checks, each with whether it is
\* empty and the message that names it.
RequiredFields ==
    << [empty |-> Len(api_key) = 0, message |-> "API key is empty."],
       [empty |-> Len(from_email) = 0, message |-> "Sender email is empty."],
       [empty |-> Len(subject) = 0, message |-> "Subject line is empty."],
       [empty |-> Len(Strip(html_body)) = 0,
        message |-> "Email body (HTML) is empty."],
       [empty |-> Len(recipients) = 0, message |-> "Recipient list is empty."] >>

\* C11: the checks run in the order apiKey, fromEmail, subject, trimmed
\* htmlBody, recipients: the one fatal error of a run names the first field
\* of that order that is empty.
C11_FirstMissingFieldNamed ==
    pc = "FatalError" =>
        /\ Len(events) = 1
        /\ \E f \in 1..Len(RequiredFields) :
              /\ RequiredFields[f].empty
              /\ \A g \in 1..(f - 1) : ~RequiredFields[g].empty
              /\ events[1] = FatalEv(RequiredFields[f].message)

C11_Witness ==
    /\ pc = "FatalError"
    /\ api_key # <<>>
    /\ from_email = <<>>
    /\ subject = <<>>
    /\ recipients = <<>>
    /\ events[1].text = "Sender email is empty."

\* C12: a non-blank recipient that fails the address validator yields a
\* failed outcome with detail "Invalid email format" and a progress event,
\* raises failCount by one and causes no provider call; the worker then
\* goes on to the next recipient.
C12_InvalidRejected ==
    (pc = "body" /\ pc' # "body" /\ Current # <<>> /\ ~is_valid_email(Current))
        => /\ events' = events \o
                  << OutcomeEv(idx, Current, FALSE, "Invalid email format"),
                     ProgressEv(idx + 1, total) >>
           /\ fail_count' = fail_count + 1
           /\ success_count' = success_count
           /\ calls' = calls
           /\ idx' = idx + 1
           /\ pc' = "loop"

C12_InvalidNeverSent ==
    \A k \in 1..Len(calls) : is_valid_email(recipients[calls[k].idx + 1])

C12_InvalidRecipient == [](C12_InvalidNeverSent) /\ [][C12_InvalidRejected]_vars

C12_Witness ==
    /\ pc = "sending"
    /\ idx = 1
    /\ events[Len(events)] = ProgressEv(1, total)
    /\ events[Len(events) - 1].text = "Invalid email format"
    /\ fail_count = 1

\* C13: a recipient that is empty after trimming is skipped with no effect:
\* the step that passes it emits nothing, makes no provider call and leaves
\* both counters as they were, and no outcome, progress event or provider
\* call ever carries the index of a blank recipient.
C13_BlankSkipped ==
    (pc = "body" /\ pc' # "body" /\ Strip(recipients[idx + 1]) = <<>>)
        => /\ events' = events
           /\ calls' = calls
           /\ success_count' = success_count
           /\ fail_count' = fail_count
           /\ idx' = idx + 1
           /\ pc' = "loop"

C13_BlankLeavesNoTrace ==
    /\ \A p \in EventsOf("outcome") \cup EventsOf("progress") :
          events[p].idx \in NonBlank
    /\ \A k \in 1..Len(calls) : calls[k].idx \in NonBlank

C13_BlankRecipient == [](C13_BlankLeavesNoTrace) /\ [][C13_BlankSkipped]_vars

C13_Witness ==
    /\ pc = "Completed"
    /\ Len(recipients) = 3
    /\ NonBlank = { 0, 2 }
    /\ recipients[2] # <<>>
    /\ Cardinality(EventsOf("outcome")) = 2

\* 0-based indices of the recipients the worker has processed: the
\* non-blank ones it has passed, and the one it is at once its outcome is
\* known.
Processed ==
    { i \in NonBlank :
        \/ i < idx
        \/ i = idx /\ pc \in { "pace", "sleepLoop", "slice" } }

\* C14: every processed recipient (non-blank and reached before the loop
\* was left; malformed, sent or failed at the provider) has exactly one
\* outcome event and exactly one progress event and no other recipient has
\* any, so the run has emitted as many progress events as outcome events.
C14_OneOutcomeOneProgress ==
    /\ \A i \in 0..(Len(recipients) - 1) :
          LET n == IF i \in Processed THEN 1 ELSE 0
          IN  /\ Cardinality({ p \in EventsOf("outcome") : events[p].idx = i }) = n
              /\ Cardinality({ p \in EventsOf("progress") : events[p].idx = i }) = n
    /\ Cardinality(EventsOf("progress")) = Cardinality(EventsOf("outcome"))

C14_Witness ==
    /\ pc = "Cancelled"
    /\ Cardinality(EventsOf("progress")) = 2
    /\ \E p \in OutcomesWith(FALSE) : events[p].text = "error"
    /\ \E p \in OutcomesWith(FALSE) : events[p].text = "Invalid email format"

\* C15: the pacing wait of an iteration is never below 1.0 s, whatever the
\* jitter and whatever delay was passed to the constructor (the stored
\* delay is itself at least 1.0 s), and it lies within 0.5 s of the stored
\* delay whenever the delay less 0.5 s is at least 1.0 s.
C15_PacingWaitRange ==
    /\ delay_seconds >= 1000
    /\ pc \in { "sleepLoop", "slice" } =>
          /\ sleep_time >= 1000
          /\ delay_seconds - 500 >= 1000 =>
                /\ sleep_time >= delay_seconds - 500
                /\ sleep_time <= delay_seconds + 500

C15_Witness ==
    /\ pc = "slice"
    /\ delay_seconds = 1600
    /\ sleep_time = delay_seconds + 500

\* C16: every provider call carries exactly one recipient: `to` is a list
\* of one element, the trimmed entry at the index of the call, and that
\* entry passes the address validator.
C16_OneRecipientPerCall ==
    \A k \in 1..Len(calls) :
        /\ Len(calls[k].to) = 1
        /\ calls[k].to[1] = Strip(recipients[calls[k].idx + 1])
        /\ is_valid_email(calls[k].to[1])
        /\ calls[k].to[1][1] \notin Whitespace
        /\ calls[k].to[1][Len(calls[k].to[1])] \notin Whitespace

C16_Witness ==
    /\ Len(calls) = 2
    /\ calls[2].result = "pending"
    /\ recipients[calls[2].idx + 1] # calls[2].to[1]

\* C18: every progress event of a run carries the same total, the length
\* of the recipient list as given, blank entries included.
C18_TotalIsListLength ==
    \A p \in EventsOf("progress") : events[p].y = Len(recipients)

C18_Witness ==
    /\ pc = "Completed"
    /\ Len(recipients) = 3
    /\ Cardinality(NonBlank) = 2
    /\ Cardinality(EventsOf("progress")) = 2
    /\ \E p \in OutcomesWith(TRUE) : events[p].idx = 2

----------------------------------------------------------------------------
(* The pure functions, each applied once to an argument drawn from a       *)
(* bounded set of strings.  No worker and no window take part.             *)

MaxAddrLen == 7

AddrAlphabet == { "a", "1", "@", ".", " " }

\* All the state of the worker thread.
thread == << config, owner, pc, idx, total, success_count, fail_count,
             sleep_time, slept, step, events, calls, slicesSinceStop >>

\* No worker has been constructed.
NoWorker ==
    /\ api_key = <<>>
    /\ from_email = <<>>
    /\ subject = <<>>
    /\ html_body = <<>>
    /\ recipients = <<>>
    /\ delay_seconds = MinDelay
    /\ stop_requested = FALSE
    /\ pc = "none"
    /\ idx = 0
    /\ total = 0
    /\ success_count = 0
    /\ fail_count = 0
    /\ sleep_time = 0
    /\ slept = 0
    /\ step = 0
    /\ events = <<>>
    /\ calls = <<>>
    /\ slicesSinceStop = 0
    /\ stopAt = NotStopped

\* The window as constructed: Send enabled, Stop disabled, no worker.
WindowIdle ==
    /\ send_btn = TRUE
    /\ stop_btn = FALSE
    /\ handled = FALSE
    /\ runs = 0
    /\ stoppedEarlier = FALSE

ValidatorInit ==
    /\ NoWorker
    /\ WindowIdle
    /\ arg \in SeqsUpTo(AddrAlphabet, MaxAddrLen)
    /\ ret = <<>>

\* One call of is_valid_email(arg).
CallIsValidEmail ==
    /\ ret = <<>>
    /\ ret' = << is_valid_email(arg) >>
    /\ UNCHANGED << thread, window, arg >>

ValidatorSpec == ValidatorInit /\ [][CallIsValidEmail]_vars

----------------------------------------------------------------------------
(* The main window: it starts one worker per confirmed click on Send, and  *)
(* enables Send again when the worker's finished_all signal reaches it.    *)

MaxRuns == 2

\* delay_spin: 1.0 to 60.0 seconds in steps of 0.5.
WindowDelayPool == { 1000, 1500 }

WindowInit == NoWorker /\ WindowIdle /\ NoCall

IsNonBlank(line) == Strip(line) # <<>>

\* _get_recipients: the non-blank lines of the editor, each stripped.
get_recipients(raw) ==
    [k \in 1..Len(SelectSeq(raw, IsNonBlank)) |-> Strip(SelectSeq(raw, IsNonBlank)[k])]

\* What _get_recipients can return for the texts the editor can hold.
EditorRecipients ==
    { get_recipients(raw) : raw \in SeqsUpTo(RecipientPool, MaxRecipients) }

\* _on_send, had line 588 not disabled the Send button.
OnSend_LeavesSendEnabled ==
    /\ send_btn
    /\ runs < MaxRuns
    /\ \E rcpts \in EditorRecipients \ { <<>> } :
       \E k \in { f \in FieldPool : Strip(f) # <<>> } :
       \E e \in { f \in FieldPool : Strip(f) # <<>> } :
       \E s \in { f \in FieldPool : Strip(f) # <<>> } :
       \E h \in { b \in HtmlPool : Strip(b) # <<>> } :
       \E d \in WindowDelayPool :
        /\ send_btn' = TRUE
        /\ stop_btn' = TRUE
        /\ api_key' = Strip(k)
        /\ from_email' = Strip(e)
        /\ subject' = Strip(s)
        /\ html_body' = h
        /\ recipients' = rcpts
        /\ delay_seconds' = Max(d, MinDelay)
    /\ stop_requested' = FALSE
    /\ pc' = "start"
    /\ idx' = 0
    /\ total' = 0
    /\ sleep_time' = 0
    /\ slept' = 0
    /\ step' = 0
    /\ events' = <<>>
    /\ calls' = <<>>
    /\ slicesSinceStop' = 0
    /\ stopAt' = NotStopped
    /\ handled' = FALSE
    /\ runs' = runs + 1
    /\ stoppedEarlier' = (stoppedEarlier \/ stop_requested)
    /\ UNCHANGED << pure, success_count, fail_count >>

\* _on_send where the new worker takes over the stop flag of the last one.
OnSend_KeepsFlag ==
    /\ send_btn
    /\ runs < MaxRuns
    /\ \E rcpts \in EditorRecipients \ { <<>> } :
       \E k \in { f \in FieldPool : Strip(f) # <<>> } :
       \E e \in { f \in FieldPool : Strip(f) # <<>> } :
       \E s \in { f \in FieldPool : Strip(f) # <<>> } :
       \E h \in { b \in HtmlPool : Strip(b) # <<>> } :
       \E d \in WindowDelayPool :
        /\ send_btn' = FALSE
        /\ stop_btn' = TRUE
        /\ api_key' = Strip(k)
        /\ from_email' = Strip(e)
        /\ subject' = Strip(s)
        /\ html_body' = h
        /\ recipients' = rcpts
        /\ delay_seconds' = Max(d, MinDelay)
    /\ stop_requested' = stop_requested
    /\ pc' = "start"
    /\ idx' = 0
    /\ total' = 0
    /\ sleep_time' = 0
    /\ slept' = 0
    /\ step' = 0
    /\ events' = <<>>
    /\ calls' = <<>>
    /\ slicesSinceStop' = 0
    /\ stopAt' = NotStopped
    /\ handled' = FALSE
    /\ runs' = runs + 1
    /\ stoppedEarlier' = (stoppedEarlier \/ stop_requested)
    /\ UNCHANGED << pure, success_count, fail_count >>

\* _on_send, for a click that passes every check (lines 544-567, each of
\* which returns when its field is empty) and is confirmed: a new
\* EmailSenderWorker is constructed and started.  success_count and
\* fail_count are locals of run(); until lines 135-136 assign them the model
\* leaves in them what the last run left.
OnSend ==
    /\ send_btn
    /\ runs < MaxRuns
    /\ \E rcpts \in EditorRecipients \ { <<>> } :
       \E k \in { f \in FieldPool : Strip(f) # <<>> } :
       \E e \in { f \in FieldPool : Strip(f) # <<>> } :
       \E s \in { f \in FieldPool : Strip(f) # <<>> } :
       \E h \in { b \in HtmlPool : Strip(b) # <<>> } :
       \E d \in WindowDelayPool :
        /\ send_btn' = FALSE
        /\ stop_btn' = TRUE
        /\ api_key' = Strip(k)
        /\ from_email' = Strip(e)
        /\ subject' = Strip(s)
        /\ html_body' = h
        /\ recipients' = rcpts
        /\ delay_seconds' = Max(d, MinDelay)
    /\ stop_requested' = FALSE
    /\ pc' = "start"
    /\ idx' = 0
    /\ total' = 0
    /\ sleep_time' = 0
    /\ slept' = 0
    /\ step' = 0
    /\ events' = <<>>
    /\ calls' = <<>>
    /\ slicesSinceStop' = 0
    /\ stopAt' = NotStopped
    /\ handled' = FALSE
    /\ runs' = runs + 1
    /\ stoppedEarlier' = (stoppedEarlier \/ stop_requested)
    /\ UNCHANGED << pure, success_count, fail_count >>

\* _on_stop: a click on the enabled Stop button.
OnStop ==
    /\ stop_btn
    /\ pc # "none"
    /\ stop_requested' = TRUE
    /\ stopAt' = IF stop_requested THEN stopAt
                 ELSE [pc |-> pc, idx |-> idx, calls |-> Len(calls),
                       outcomes |-> Cardinality(EventsOf("outcome"))]
    /\ stop_btn' = FALSE
    /\ UNCHANGED << pure, config, pc, idx, total, success_count, fail_count,
                    sleep_time, slept, step, events, calls, slicesSinceStop,
                    send_btn, handled, runs, stoppedEarlier >>

\* _on_finished: the worker's finished_all signal reaches the window.
OnFinished ==
    /\ EventsOf("completed") # {}
    /\ ~handled
    /\ send_btn' = TRUE
    /\ stop_btn' = FALSE
    /\ handled' = TRUE
    /\ UNCHANGED << pure, thread, runs, stoppedEarlier >>

\* What _on_send lets through: every field non-empty, every recipient
\* stripped and non-blank.  A worker started by the window therefore never
\* fails validation and never skips a blank entry.
WindowChecksInputs ==
    pc # "none" =>
        /\ ValidationError = ""
        /\ \A i \in 1..Len(recipients) :
               recipients[i] # <<>> /\ recipients[i] = Strip(recipients[i])
        /\ delay_seconds \in WindowDelayPool

\* The steps of run() that a worker started by the window can take.
runFromWindow ==
    \/ ValidateOk
    \/ StopBreak
    \/ EnterBody
    \/ RejectInvalid
    \/ Dispatch
    \/ SendSucceeded
    \/ SendFailed
    \/ StartWait
    \/ NoWait
    \/ BeginSlice
    \/ EndSlice
    \/ EndWait
    \/ Finish

UiNext == OnSend \/ OnStop \/ OnFinished \/ runFromWindow

UiSpec == WindowInit /\ [][UiNext]_vars

----------------------------------------------------------------------------
(* html_to_plain_text.  A document is a sequence of tokens: a character of *)
(* text, an ordinary tag "<p>", or the tags that open and close a script   *)
(* or style element.                                                       *)

MaxHtmlLen == 5

HtmlAlphabet == { "x", " ", "\n", "<p>", "<script>", "</script>" }

\* endData(): the text collected so far becomes a node of the tree.
EndData(nodes, cur, inScript) ==
    IF cur = <<>> THEN nodes
    ELSE Append(nodes, [script |-> inScript, text |-> cur])

\* The parser: every tag ends the current text node; from "<script>" to the
\* next "</script>", or to the end of the input, everything is the raw
\* content of the script element.
RECURSIVE Feed(_, _, _, _)
Feed(html, inScript, cur, nodes) ==
    IF html = <<>> THEN EndData(nodes, cur, inScript)
    ELSE IF inScript
    THEN IF Head(html) = "</script>"
         THEN Feed(Tail(html), FALSE, <<>>, EndData(nodes, cur, TRUE))
         ELSE Feed(Tail(html), TRUE, Append(cur, Head(html)), nodes)
    ELSE IF Head(html) = "<script>"
    THEN Feed(Tail(html), TRUE, <<>>, EndData(nodes, cur, FALSE))
    ELSE IF Head(html) \in { "<p>", "</script>" }
    THEN Feed(Tail(html), FALSE, <<>>, EndData(nodes, cur, FALSE))
    ELSE Feed(Tail(html), FALSE, Append(cur, Head(html)), nodes)

\* BeautifulSoup(html, "html.parser"): the text nodes in document order.
BeautifulSoup(html) == Feed(html, FALSE, <<>>, <<>>)

IsVisible(node) == ~node.script

\* for tag in soup(["script", "style"]): tag.decompose()
decompose(soup) == SelectSeq(soup, IsVisible)

RECURSIVE Join(_, _)
Join(strings, separator) ==
    IF strings = <<>> THEN <<>>
    ELSE IF Len(strings) = 1 THEN strings[1]
    ELSE strings[1] \o separator \o Join(Tail(strings), separator)

IsNonEmpty(string) == string # <<>>

\* soup.get_text(separator="\n", strip=True): every text node stripped, the
\* empty ones dropped, the rest joined by the separator.
get_text(soup) ==
    Join(SelectSeq([k \in 1..Len(soup) |-> Strip(soup[k].text)], IsNonEmpty),
         << "\n" >>)

\* Length of the run of newlines that text starts with.
RECURSIVE NewlineRun(_)
NewlineRun(text) ==
    IF text = <<>> \/ Head(text) # "\n" THEN 0
    ELSE 1 + NewlineRun(Tail(text))

\* re.sub without effect: the text is returned as it is.
CollapseNewlines_Off(text) == text

\* re.sub(r"\n{3,}", "\n\n", text)
RECURSIVE CollapseNewlines(_)
CollapseNewlines(text) ==
    IF text = <<>> THEN <<>>
    ELSE IF Head(text) # "\n"
    THEN << Head(text) >> \o CollapseNewlines(Tail(text))
    ELSE LET n == NewlineRun(text)
         IN  (IF n >= 3 THEN << "\n", "\n" >> ELSE SubSeq(text, 1, n))
                 \o CollapseNewlines(SubSeq(text, n + 1, Len(text)))

html_to_plain_text(html) ==
    Strip(CollapseNewlines(get_text(decompose(BeautifulSoup(html)))))

RendererInit ==
    /\ NoWorker
    /\ WindowIdle
    /\ arg \in SeqsUpTo(HtmlAlphabet, MaxHtmlLen)
    /\ ret = <<>>

\* One call of html_to_plain_text(arg).
CallHtmlToPlainText ==
    /\ ret = <<>>
    /\ ret' = << html_to_plain_text(arg) >>
    /\ UNCHANGED << thread, window, arg >>

RendererSpec == RendererInit /\ [][CallHtmlToPlainText]_vars

----------------------------------------------------------------------------
(* C17                                                                     *)

\* A worker is constructed with its stop flag clear, and run() sets both
\* counters to 0 when it passes validation.
C17_RunStartsFresh ==
    /\ runs' = runs + 1 => (stop_requested' = FALSE /\ pc' = "start")
    /\ (pc = "start" /\ pc' = "loop") => (success_count' = 0 /\ fail_count' = 0)

\* The flag is set only by a stop requested on this worker, a run is only
\* cancelled by such a stop, and the counters count the outcomes of this run
\* alone.
C17_OnlyItsOwnStop ==
    /\ stop_requested <=> stopAt # NotStopped
    /\ (pc \in { "break", "Cancelled" } \/ StoppedLog # {}) => stopAt # NotStopped
    /\ pc \notin { "none", "start" } =>
           /\ success_count = Cardinality(OutcomesWith(TRUE))
           /\ fail_count = Cardinality(OutcomesWith(FALSE))

\* C17: every run starts from a fresh state: the stop flag is false when the
\* worker is constructed, success_count and fail_count are 0 when the run
\* starts, and a stop requested during one run neither cancels a later run
\* nor changes its counts.
C17_FreshRunState == [](C17_OnlyItsOwnStop) /\ [][C17_RunStartsFresh]_vars

\* A second run ran to completion and sent to two recipients although the
\* run before it had been stopped.
C17_Witness ==
    /\ runs = 2
    /\ stoppedEarlier
    /\ stopAt = NotStopped
    /\ pc = "Completed"
    /\ Len(calls) >= 2

----------------------------------------------------------------------------
(* C19                                                                     *)

C19_Count(s, ch) == Cardinality({ i \in 1..Len(s) : s[i] = ch })

C19_Last(s, ch) ==
    IF \E i \in 1..Len(s) : s[i] = ch
    THEN CHOOSE i \in 1..Len(s) : s[i] = ch /\ \A j \in (i + 1)..Len(s) : s[j] # ch
    ELSE 0

\* local-part@domain.tld, read off the text: one "@", a non-empty local
\* part, a non-empty domain before the last ".", at least 2 letters after.
C19_MatchesPattern(s) ==
    /\ C19_Count(s, "@") = 1
    /\ \E at \in { C19_Last(s, "@") } : \E dot \in { C19_Last(s, ".") } :
        /\ at > 1
        /\ dot > at + 1
        /\ Len(s) - dot >= 2
        /\ \A i \in 1..(at - 1) : s[i] \in LocalChars
        /\ \A i \in (at + 1)..(dot - 1) : s[i] \in DomainChars
        /\ \A i \in (dot + 1)..Len(s) : s[i] \in Letters

\* The text ends with "." and at least 2 letters.
C19_HasTld(s) ==
    \E dot \in 1..Len(s) :
        /\ s[dot] = "."
        /\ Len(s) - dot >= 2
        /\ \A i \in (dot + 1)..Len(s) : s[i] \in Letters

C19_HasWhitespace(s) == \E i \in 1..Len(s) : s[i] \in Whitespace

\* C19 as amended: is_valid_email returns true for every input whose
\* trimmed text matches local-part@domain.tld, and false for every input
\* that has no "@", has no top-level label of at least 2 letters, or has
\* whitespace left inside it after the leading and trailing whitespace is
\* trimmed.
C19_ValidatorContract ==
    ret # <<>> =>
        \E trimmed \in { Strip(arg) } :
            /\ C19_MatchesPattern(trimmed) => ret[1] = TRUE
            /\ C19_Count(arg, "@") = 0 => ret[1] = FALSE
            /\ ~C19_HasTld(trimmed) => ret[1] = FALSE
            /\ C19_HasWhitespace(trimmed) => ret[1] = FALSE

\* An address padded with whitespace was accepted, and one with whitespace
\* inside it was rejected.
C19_Witness ==
    /\ ret = << TRUE >>
    /\ C19_HasWhitespace(arg)
    /\ C19_MatchesPattern(Strip(arg))

\* C19 as the specification states it: false for every input containing
\* whitespace, wherever the whitespace is.
C19_AnyWhitespaceRejected ==
    ret # <<>> =>
        /\ C19_MatchesPattern(arg) => ret[1] = TRUE
        /\ C19_Count(arg, "@") = 0 => ret[1] = FALSE
        /\ ~C19_HasTld(Strip(arg)) => ret[1] = FALSE
        /\ C19_HasWhitespace(arg) => ret[1] = FALSE

----------------------------------------------------------------------------
(* C20                                                                     *)

\* The text extracted from the document, before the newlines are collapsed.
C20_Extracted == get_text(decompose(BeautifulSoup(arg)))

\* Position i starts a maximal run of newlines in text.
C20_RunStart(text, i) ==
    /\ text[i] = "\n"
    /\ i = 1 \/ text[i - 1] # "\n"

\* Length of the maximal run of newlines that starts at position i.
C20_RunLen(text, i) ==
    Cardinality({ j \in i..Len(text) : \A k \in i..j : text[k] = "\n" })

\* The lengths of the maximal runs of newlines of text, in order.
C20_Runs(text) ==
    [k \in 1..Cardinality({ i \in 1..Len(text) : C20_RunStart(text, i) }) |->
        C20_RunLen(text,
            CHOOSE i \in 1..Len(text) :
                /\ C20_RunStart(text, i)
                /\ Cardinality({ j \in 1..i : C20_RunStart(text, j) }) = k)]

C20_NotNewline(ch) == ch # "\n"

\* C20: the output of html_to_plain_text never has 3 consecutive newlines;
\* it is the extracted text with every run of 3 or more newlines made
\* exactly 2 and nothing else changed; and it neither starts nor ends with
\* whitespace.
C20_PlainTextShape ==
    ret # <<>> =>
        /\ \A i \in 1..(Len(ret[1]) - 2) :
               ~(ret[1][i] = "\n" /\ ret[1][i + 1] = "\n" /\ ret[1][i + 2] = "\n")
        /\ Len(C20_Runs(ret[1])) = Len(C20_Runs(C20_Extracted))
        /\ \A k \in 1..Len(C20_Runs(ret[1])) :
               C20_Runs(ret[1])[k] =
                   IF C20_Runs(C20_Extracted)[k] >= 3 THEN 2
                   ELSE C20_Runs(C20_Extracted)[k]
        /\ SelectSeq(ret[1], C20_NotNewline) = SelectSeq(C20_Extracted, C20_NotNewline)
        /\ ret[1] # <<>> =>
               /\ ret[1][1] \notin Whitespace
               /\ ret[1][Len(ret[1])] \notin Whitespace

\* A text node held 3 or more newlines in a row and the output holds 2 there.
C20_Witness ==
    /\ ret # <<>>
    /\ \E k \in 1..Len(C20_Runs(C20_Extracted)) :
           /\ C20_Runs(C20_Extracted)[k] >= 3
           /\ C20_Runs(ret[1])[k] = 2

----------------------------------------------------------------------------
(* C21                                                                     *)

\* The log events "waiting" of the wait that followed the call at index i.
C21_WaitsAfter(i) ==
    { p \in EventsOf("log") : events[p].text = "waiting" /\ events[p].idx = i }

\* The step that dispatches a call other than the first: the wait that
\* followed the previous call was started, was at least 1.0 s long and was
\* slept to its end.
C21_WaitedBeforeCall ==
    (Len(calls') = Len(calls) + 1 /\ calls # <<>>)
        => /\ Cardinality(C21_WaitsAfter(calls[Len(calls)].idx)) = 1
           /\ sleep_time >= 1000
           /\ slept >= sleep_time

\* A wait that was left before its end was left because of a stop, and the
\* worker is then on its way out of the loop.
C21_CutShortEndsCalls ==
    (pc \notin { "sleepLoop", "slice" } /\ slept < sleep_time)
        => /\ stop_requested
           /\ pc \in { "loop", "break", "Cancelled" }
           /\ calls[Len(calls)].idx = idx - 1

\* C21: between any two consecutive provider calls of a run a pacing wait
\* of at least 1.0 s ran to completion; after a wait cut short by a stop no
\* provider call is made.
C21_WaitBetweenCalls ==
    [](C21_CutShortEndsCalls) /\ [][C21_WaitedBeforeCall]_vars

\* Two calls were made, with a malformed recipient between them, and the
\* wait between them was slept in full.
C21_Witness ==
    /\ Len(calls) = 2
    /\ calls[2].idx = calls[1].idx + 2
    /\ slept >= sleep_time
    /\ sleep_time >= 1000

----------------------------------------------------------------------------
(* C22                                                                     *)

\* The pacing waits started so far, as positions of their log events.
C22_Waits == { p \in EventsOf("log") : events[p].text = "waiting" }

\* The step that starts a wait: the flag is clear, the worker has just
\* finished a provider call for the recipient it is at, and that recipient
\* is not at the last index.
C22_WaitStartsAfterCall ==
    (Len(events') = Len(events) + 1 /\ events'[Len(events')].text = "waiting")
        => /\ ~stop_requested
           /\ calls # <<>>
           /\ calls[Len(calls)].idx = idx
           /\ calls[Len(calls)].result # "pending"
           /\ events[Len(events)] = ProgressEv(idx + 1, total)
           /\ idx < Len(recipients) - 1
           /\ events'[Len(events')].idx = idx

\* Every wait directly follows the progress event and the outcome of a
\* provider call for the same recipient; there is none for a blank or
\* malformed recipient nor for the recipient at the last index; and the
\* worker sleeps only in a wait.
C22_WaitsOnlyAfterCalls ==
    /\ \A p \in C22_Waits :
          /\ p >= 3
          /\ events[p - 1].kind = "progress" /\ events[p - 1].idx = events[p].idx
          /\ events[p - 2].kind = "outcome" /\ events[p - 2].idx = events[p].idx
          /\ events[p - 2].text # "Invalid email format"
          /\ \E k \in 1..Len(calls) : calls[k].idx = events[p].idx
          /\ is_valid_email(recipients[events[p].idx + 1])
          /\ events[p].idx < Len(recipients) - 1
    /\ Cardinality(C22_Waits) <= Len(calls)
    /\ pc \in { "sleepLoop", "slice" } =>
          \E p \in C22_Waits : events[p].idx = idx

\* C22: a pacing wait is started only right after a provider call, for a
\* recipient that is not at the last index, and only with the stop flag
\* clear; no wait follows a blank recipient, a malformed recipient or the
\* recipient at the last index.
C22_WhenWaitsHappen ==
    [](C22_WaitsOnlyAfterCalls) /\ [][C22_WaitStartsAfterCall]_vars

\* A run of three recipients, the second malformed and the others sent,
\* ended with exactly one wait, the one after the first call.
C22_Witness ==
    /\ pc = "Completed"
    /\ Len(recipients) = 3
    /\ Len(calls) = 2
    /\ calls[2].idx = 2
    /\ Cardinality(C22_Waits) = 1
    /\ \E p \in OutcomesWith(FALSE) : events[p].text = "Invalid email format"

----------------------------------------------------------------------------
(* C23                                                                     *)

\* Once set, the flag stays set.
C23_FlagStaysSet == stop_requested => stop_requested'

\* After the first request_stop the worker has dispatched at most one more
\* provider call and emitted at most one more outcome event.
C23_OneMoreAtMost ==
    stopAt # NotStopped =>
        /\ stop_requested
        /\ Len(calls) <= stopAt.calls + 1
        /\ Cardinality(EventsOf("outcome")) <= stopAt.outcomes + 1

\* C23: once a stop has been requested, at most one further provider call
\* is dispatched and at most one further outcome event is emitted before
\* the run ends, wherever in the loop the request lands; the flag is never
\* cleared during the run.
C23_BoundedAfterStop == [](C23_OneMoreAtMost) /\ [][C23_FlagStaysSet]_vars

\* The stop landed after the flag was read at the top of an iteration and
\* before the call; the call and its outcome came after it, and the run
\* ended with recipients left over.
C23_Witness ==
    /\ pc = "Cancelled"
    /\ stopAt.pc = "body"
    /\ Len(calls) = stopAt.calls + 1
    /\ Cardinality(EventsOf("outcome")) = stopAt.outcomes + 1
    /\ idx < Len(recipients)

----------------------------------------------------------------------------
(* C24                                                                     *)

\* The terminal events emitted so far.
C24_Endings == EventsOf("fatalError") \cup EventsOf("completed")

\* At most one of fatalError and completed, and fatalError only alone.
C24_FatalOrCompleted ==
    /\ Cardinality(C24_Endings) <= 1
    /\ EventsOf("fatalError") # {} => Len(events) = 1
    /\ pc \in Terminal => Cardinality(C24_Endings) = 1

\* C24: fatalError and completed are mutually exclusive: every run emits
\* exactly one of the two, and a run that emits fatalError emits no
\* completed, progress, outcome or log event.
C24_ExactlyOneEnding ==
    [](C24_FatalOrCompleted) /\ <>(Cardinality(C24_Endings) = 1)

\* One run ended with fatalError alone.
C24_Witness ==
    /\ pc = "FatalError"
    /\ events = << FatalEv("Recipient list is empty.") >>

----------------------------------------------------------------------------
(* C25                                                                     *)

\* The number of recipients the loop has taken from the list so far.
C25_Visited ==
    IF pc \in { "body", "sending", "pace", "sleepLoop", "slice" } THEN idx + 1
    ELSE idx

\* No step lowers a counter, and a step raises at most one of them, by one.
C25_CountersStep ==
    /\ success_count' >= success_count
    /\ fail_count' >= fail_count
    /\ (success_count' + fail_count') - (success_count + fail_count) \in { 0, 1 }

C25_CountersBounded ==
    /\ success_count >= 0
    /\ fail_count >= 0
    /\ success_count + fail_count <= C25_Visited
    /\ C25_Visited <= total

\* C25: in every reachable state of a run success_count and fail_count
\* never decrease, each step raises at most one of them by exactly one, and
\* their sum is at most the number of recipients visited so far, which is
\* at most total.
C25_CountersMonotone == [](C25_CountersBounded) /\ [][C25_CountersStep]_vars

\* Both counters were raised and every recipient visited was counted.
C25_Witness ==
    /\ pc = "Completed"
    /\ total = 3
    /\ success_count = 2
    /\ fail_count = 1

----------------------------------------------------------------------------
(* C26                                                                     *)

\* The worker of the window has emitted completed or fatalError.
C26_Ended == EventsOf("completed") \cup EventsOf("fatalError") # {}

\* While a worker is active the Send button is disabled.
C26_SendDisabledWhileActive ==
    (pc # "none" /\ ~C26_Ended) => ~send_btn

\* A worker is started only when none is active, and a worker that has
\* emitted completed or fatalError makes no further provider call.
C26_OneRunAtATime ==
    /\ runs' = runs + 1 => (pc = "none" \/ C26_Ended)
    /\ (C26_Ended /\ runs' = runs) => (calls' = calls /\ pc' = pc)

\* C26: the main window never has two runs active at once: from the start
\* of a worker the Send button stays disabled until that worker has emitted
\* completed or fatalError, and after either event the worker makes no
\* further provider call.
C26_NeverTwoRuns ==
    [](C26_SendDisabledWhileActive) /\ [][C26_OneRunAtATime]_vars

\* The second worker of the window is in a provider call; the first one
\* ended before it was started.
C26_Witness ==
    /\ runs = 2
    /\ pc = "sending"
    /\ ~send_btn

----------------------------------------------------------------------------
(* C27                                                                     *)

\* The other fields are filled in and the list is not empty, but every
\* entry of it is blank once trimmed.
C27_OnlyBlanks ==
    /\ api_key # <<>>
    /\ from_email # <<>>
    /\ subject # <<>>
    /\ Strip(html_body) # <<>>
    /\ recipients # <<>>
    /\ \A i \in 1..Len(recipients) : Strip(recipients[i]) = <<>>

\* C27: a non-empty recipient list whose entries are all blank after
\* trimming passes validation: the run emits no fatalError, makes no
\* provider call, emits no outcome or progress event, and ends by emitting
\* completed(0, 0).
C27_AllBlankCompletes ==
    C27_OnlyBlanks =>
        /\ pc # "FatalError"
        /\ EventsOf("fatalError") = {}
        /\ calls = <<>>
        /\ EventsOf("outcome") = {}
        /\ EventsOf("progress") = {}
        /\ pc \in Terminal => events[Len(events)] = CompletedEv(0, 0)

\* A run over two blank entries went through the whole list and completed.
C27_Witness ==
    /\ C27_OnlyBlanks
    /\ Len(recipients) = 2
    /\ pc = "Completed"
    /\ idx = 2
    /\ events[Len(events)] = CompletedEv(0, 0)

====
